---- MODULE Spec2Model ----
(***************************************************************************)
(* The IUU risk dashboard of src/iuu_web_app_patched.py as a state machine. *)
(*                                                                         *)
(* The program is a Streamlit script: every change of a widget (a slider,  *)
(* a number input, the file uploader) reruns the whole script from the top *)
(* with the widgets' current values.  A state holds the widgets' values,   *)
(* the uploaded file, and what the last run of the script computed and     *)
(* rendered.  Each action is one change of a widget followed by the full   *)
(* rerun of the script.                                                    *)
(*                                                                         *)
(* Units.  Days, hours and weights are the program's numbers.  Speeds and  *)
(* the speed threshold are in tenths of a knot.  Latitude and longitude    *)
(* are in steps of the arc that subtends 10 nm on the program's sphere     *)
(* (radius 3440.07 nm), measured from a reference point on the equator.    *)
(* Distances are in hundredths of a nautical mile, rounded up, so that     *)
(* "distance <= n nm" for a whole number n is decided exactly.             *)
(***************************************************************************)
EXTENDS Integers, Sequences, FiniteSets, TLC

VARIABLES
    config,          \* the sidebar widgets' values
    uploaded_file,   \* the file uploader's content
    sort_kind,       \* how this build's default sort orders equal keys
    df,              \* the scored frame of the last run, by index label
    df_view,         \* index labels kept by the distance filter
    df_view_sorted,  \* the same labels ranked by Risk Score
    screen           \* what the last run rendered

vars == <<config, uploaded_file, sort_kind, df, df_view, df_view_sorted, screen>>

----------------------------------------------------------------------------
(* Bounds of the model. *)

MaxVessels == 4

MaxScoreRows == 2

MaxBadRows == 2
\* Rows of a file of vessels placed around the patrol.
MaxBearingRows == 3

----------------------------------------------------------------------------
(* Helpers on sequences and sets. *)

Range(s) == {s[i] : i \in DOMAIN s}

Min(S) == CHOOSE x \in S : \A y \in S : x <= y

Max(S) == CHOOSE x \in S : \A y \in S : x >= y

Abs(x) == IF x < 0 THEN 0 - x ELSE x

RemoveAt(s, i) == [j \in 1..(Len(s) - 1) |-> IF j < i THEN s[j] ELSE s[j + 1]]

RECURSIVE SeqSum(_)
SeqSum(s) == IF s = <<>> THEN 0 ELSE Head(s) + SeqSum(Tail(s))

\* Injective sequences over S of length lo..hi.
RECURSIVE SeqsOver(_, _)
SeqsOver(S, n) ==
    IF n = 0 THEN {<<>>}
    ELSE {Append(s, x) : s \in SeqsOver(S, n - 1), x \in S}

InjectiveSeqs(S, lo, hi) ==
    UNION {{s \in SeqsOver(S, n) : \A i, j \in 1..n : i # j => s[i] # s[j]} : n \in lo..hi}

AllSeqs(S, lo, hi) == UNION {SeqsOver(S, n) : n \in lo..hi}

----------------------------------------------------------------------------
(* Sidebar configuration. *)

default_high_risk_flags ==
    {"Panama", "Honduras", "Cambodia", "Belize", "St. Kitts & Nevis", "Sierra Leone", "Togo"}

\* The widgets' default values.
default_config ==
    [ high_risk_flags     |-> default_high_risk_flags,
      w_flag              |-> 25,
      w_days_port         |-> 15,
      w_loiter            |-> 20,
      w_ais_gap           |-> 20,
      w_slow_speed        |-> 10,
      t_days_port         |-> 30,
      t_loiter            |-> 12,
      t_ais_gap           |-> 24,
      t_speed             |-> 20,      \* 2.0 knots
      patrol_lat          |-> 0,       \* the default position is the reference point
      patrol_lon          |-> 0,
      max_distance_filter |-> 250 ]

\* The ranges the weight sliders allow.
WeightRange(w) ==
    /\ w.w_flag       \in 0..40
    /\ w.w_days_port  \in 0..30
    /\ w.w_loiter     \in 0..40
    /\ w.w_ais_gap    \in 0..40
    /\ w.w_slow_speed \in 0..20

\* The distance slider: 10..1000 in steps of 10.
DistanceRange(m) == m \in 10..1000 /\ m % 10 = 0

----------------------------------------------------------------------------
(* Schema validation and coercion. *)

required_columns ==
    << "Vessel Name", "MMSI", "IMO", "Flag State",
       "Latitude", "Longitude", "Days Since Port",
       "Speed (knots)", "Loitering Hours", "AIS Gap Hours" >>

missing_columns_absent(columns) ==
    SelectSeq(required_columns, LAMBDA col : col \in columns)

missing_columns(columns) ==
    SelectSeq(required_columns, LAMBDA col : col \notin columns)

numeric_cols ==
    { "Latitude", "Longitude", "Days Since Port",
      "Speed (knots)", "Loitering Hours", "AIS Gap Hours" }

\* What pd.to_numeric(errors="coerce") makes of a cell that is not a number.
NaN == -2147483647

fillna(v) == IF v = NaN THEN 0 ELSE v

\* Lines 97-100 on one row: numeric columns coerced, the others as read.
coerce_numeric(row) ==
    [c \in DOMAIN row |-> IF c \in numeric_cols THEN fillna(row[c]) ELSE row[c]]

----------------------------------------------------------------------------
(* Distance. *)

\* The least r with r * r >= x, for x in 0..hi*hi.
RECURSIVE CeilSqrtIn(_, _, _)
CeilSqrtIn(x, lo, hi) ==
    IF lo >= hi THEN lo
    ELSE LET mid == (lo + hi) \div 2
         IN  IF mid * mid >= x THEN CeilSqrtIn(x, lo, mid)
             ELSE CeilSqrtIn(x, mid + 1, hi)

CeilSqrt(x) == CeilSqrtIn(x, 0, 46340)

\* haversine_nm with the trigonometric functions taken to first order around
\* the reference point (sin x = x, cos x = 1, asin x = x): with angles in steps
\* of 10/3440.07 rad, a = (dlat/2)^2 + (dlon/2)^2 and 3440.07 * c is
\* 10 * sqrt(dlat^2 + dlon^2) nm.  Along a meridian, and along the equator, this
\* is the haversine value itself.  The result is in hundredths of a nm, rounded
\* up, and is 0 exactly when the two points coincide.
haversine_nm(lat1, lon1, lat2, lon2) ==
    LET dlat == lat2 - lat1
        dlon == lon2 - lon1
        a4   == dlat * dlat + dlon * dlon
    IN  CeilSqrt(1000000 * a4)

\* A whole number of nautical miles in the unit of haversine_nm.
Nm(n) == n * 100

----------------------------------------------------------------------------
(* Scoring. *)

score_vessel_nonstrict(row, cfg) ==
    (IF row["Flag State"] \in cfg.high_risk_flags THEN cfg.w_flag ELSE 0)
  + (IF row["Days Since Port"] >= cfg.t_days_port THEN cfg.w_days_port ELSE 0)
  + (IF row["Loitering Hours"] > cfg.t_loiter THEN cfg.w_loiter ELSE 0)
  + (IF row["AIS Gap Hours"] > cfg.t_ais_gap THEN cfg.w_ais_gap ELSE 0)
  + (IF row["Speed (knots)"] < cfg.t_speed THEN cfg.w_slow_speed ELSE 0)

score_vessel_base(row, cfg) ==
    50
  + (IF row["Flag State"] \in cfg.high_risk_flags THEN cfg.w_flag ELSE 0)
  + (IF row["Days Since Port"] > cfg.t_days_port THEN cfg.w_days_port ELSE 0)
  + (IF row["Loitering Hours"] > cfg.t_loiter THEN cfg.w_loiter ELSE 0)
  + (IF row["AIS Gap Hours"] > cfg.t_ais_gap THEN cfg.w_ais_gap ELSE 0)
  + (IF row["Speed (knots)"] < cfg.t_speed THEN cfg.w_slow_speed ELSE 0)

\* score = 0, then five independent tests in this order, each adding its weight.
score_vessel(row, cfg) ==
    LET s0 == 0
        s1 == IF row["Flag State"] \in cfg.high_risk_flags THEN s0 + cfg.w_flag ELSE s0
        s2 == IF row["Days Since Port"] > cfg.t_days_port THEN s1 + cfg.w_days_port ELSE s1
        s3 == IF row["Loitering Hours"] > cfg.t_loiter THEN s2 + cfg.w_loiter ELSE s2
        s4 == IF row["AIS Gap Hours"] > cfg.t_ais_gap THEN s3 + cfg.w_ais_gap ELSE s3
        s5 == IF row["Speed (knots)"] < cfg.t_speed THEN s4 + cfg.w_slow_speed ELSE s4
    IN  s5

risk_level_strict(score) ==
    IF score > 80 THEN "Critical"
    ELSE IF score > 60 THEN "High"
    ELSE IF score > 40 THEN "Medium"
    ELSE "Low"

risk_level(score) ==
    IF score >= 80 THEN "Critical"
    ELSE IF score >= 60 THEN "High"
    ELSE IF score >= 40 THEN "Medium"
    ELSE "Low"

risk_color(score) ==
    IF score >= 80 THEN "darkred"
    ELSE IF score >= 60 THEN "red"
    ELSE IF score >= 40 THEN "orange"
    ELSE "green"

\* Lines 92-142 on one row: coercion, then the three derived columns.
scored_row(row, cfg) ==
    LET r == coerce_numeric(row)
        d == haversine_nm(cfg.patrol_lat, cfg.patrol_lon, r["Latitude"], r["Longitude"])
        s == score_vessel(r, cfg)
    IN  r @@ ("Distance from Patrol (nm)" :> d)
          @@ ("Risk Score" :> s)
          @@ ("Risk Level" :> risk_level(s))

----------------------------------------------------------------------------
(* Frames: a frame is the sequence of index labels of its rows, in row     *)
(* order; the rows themselves are looked up in the scored frame.           *)

index_of(frame) == [i \in 1..Len(frame) |-> i]

head(index, n) == IF Len(index) <= n THEN index ELSE SubSeq(index, 1, n)

\* sort_values(by=..., ascending=False) with the default kind, "quicksort",
\* which does not promise an order among equal keys.  A build either keeps
\* equal keys in their input order or does not; the order it produces is a
\* function of the input.
RECURSIVE sort_values(_, _, _)
sort_values(index, key, kind) ==
    IF index = <<>> THEN <<>>
    ELSE LET top   == Max({key[index[i]] : i \in DOMAIN index})
             cands == {i \in DOMAIN index : key[index[i]] = top}
             pick  == IF kind = "stable" THEN Min(cands) ELSE Max(cands)
         IN  <<index[pick]>> \o sort_values(RemoveAt(index, pick), key, kind)

risk_score(frame) == [i \in DOMAIN frame |-> frame[i]["Risk Score"]]

distance_filter_strict(frame, max_distance_filter) ==
    SelectSeq(index_of(frame),
              LAMBDA i : frame[i]["Distance from Patrol (nm)"] < Nm(max_distance_filter))

\* Line 145.
distance_filter(frame, max_distance_filter) ==
    SelectSeq(index_of(frame),
              LAMBDA i : frame[i]["Distance from Patrol (nm)"] <= Nm(max_distance_filter))

\* Line 230, over the frame `index` of the scored rows.
within_100(frame, index) ==
    SelectSeq(index, LAMBDA i : frame[i]["Distance from Patrol (nm)"] <= Nm(100))

within_50_wide(frame, index) ==
    SelectSeq(index, LAMBDA i : frame[i]["Distance from Patrol (nm)"] <= Nm(100))

\* Line 267.
within_50(frame, index) ==
    SelectSeq(index, LAMBDA i : frame[i]["Distance from Patrol (nm)"] <= Nm(50))

----------------------------------------------------------------------------
(* Operational summary. *)

\* The bucketing with 135 degrees counted as North.
cardinal_direction_closed_north(lat_p, lon_p, lat_v, lon_v) ==
    LET dlat == lat_v - lat_p
        dlon == lon_v - lon_p
    IN  IF dlon >= Abs(dlat) THEN "East"
        ELSE IF dlat >= Abs(dlon) THEN "North"
        ELSE IF (0 - dlat) > Abs(dlon) THEN "South"
        ELSE "West"

\* angle = degrees(atan2(dlat, dlon)), decided on the signs and sizes of the
\* two differences: |angle| <= 45 iff dlon >= |dlat| (atan2(0, 0) is 0);
\* 45 < angle < 135 iff dlat > |dlon|; -135 < angle < -45 iff -dlat > |dlon|.
cardinal_direction(lat_p, lon_p, lat_v, lon_v) ==
    LET dlat == lat_v - lat_p
        dlon == lon_v - lon_p
    IN  IF dlon >= Abs(dlat) THEN "East"
        ELSE IF dlat > Abs(dlon) THEN "North"
        ELSE IF (0 - dlat) > Abs(dlon) THEN "South"
        ELSE "West"

\* The distinct values of s in the order of their first appearance.
unique(s) ==
    LET firsts == SelectSeq(index_of(s), LAMBDA i : \A j \in 1..(i - 1) : s[j] # s[i])
    IN  [k \in DOMAIN firsts |-> s[firsts[k]]]

\* directions.value_counts().idxmax(): the counts, sorted descending by the
\* default sort, and the first label holding the largest count.
value_counts_idxmax(directions, kind) ==
    LET counts == [d \in Range(directions) |->
                      Cardinality({i \in DOMAIN directions : directions[i] = d})]
    IN  Head(sort_values(unique(directions), counts, kind))

priority_form(n) ==
    IF n = 0 THEN "none"
    ELSE IF n = 1 THEN "one"
    ELSE IF n = 2 THEN "two"
    ELSE "three"

\* Lines 229-296 with the summary's frame being `index`.
summary_over(frame, index, cfg, kind) ==
    LET w100      == within_100(frame, index)
        count_100 == Len(w100)
    IN  IF count_100 = 0
        THEN [ sentence           |-> "no vessels within 100 miles",
               count_100          |-> 0,
               majority_direction |-> "",
               priority_vessels   |-> <<>>,
               priority_summary   |-> "" ]
        ELSE LET directions ==
                     [k \in DOMAIN w100 |->
                         cardinal_direction(cfg.patrol_lat, cfg.patrol_lon,
                                            frame[w100[k]]["Latitude"],
                                            frame[w100[k]]["Longitude"])]
                 majority_direction == value_counts_idxmax(directions, kind)
                 w50        == within_50(frame, index)
                 w50_sorted == sort_values(w50, risk_score(frame), kind)
                 top        == head(w50_sorted, 3)
                 priority_vessels == [k \in DOMAIN top |-> frame[top[k]]["Vessel Name"]]
             IN  [ sentence           |-> "vessels within 100 miles",
                   count_100          |-> count_100,
                   majority_direction |-> majority_direction,
                   priority_vessels   |-> priority_vessels,
                   priority_summary   |-> priority_form(Len(priority_vessels)) ]

operational_summary_of_view(frame, view, cfg, kind) ==
    summary_over(frame, view, cfg, kind)

\* The summary selects from df, the full scored frame (lines 230 and 267);
\* df_view is in scope and is not used.
operational_summary(frame, view, cfg, kind) ==
    summary_over(frame, index_of(frame), cfg, kind)

----------------------------------------------------------------------------
(* Narrative for the top 3 of the filtered view. *)

narrative_reasons_loose(row, cfg) ==
    (IF row["Flag State"] \in cfg.high_risk_flags
        THEN <<[text |-> "Flagged to higher-risk state", value |-> row["Flag State"]]>>
        ELSE <<>>)
 \o (IF row["Days Since Port"] > cfg.t_days_port
        THEN <<[text |-> "Extended time at sea", value |-> row["Days Since Port"]]>>
        ELSE <<>>)
 \o (IF row["Loitering Hours"] > cfg.t_loiter
        THEN <<[text |-> "Significant loitering", value |-> row["Loitering Hours"]]>>
        ELSE <<>>)
 \o (IF row["AIS Gap Hours"] > cfg.t_ais_gap
        THEN <<[text |-> "Long AIS silence", value |-> row["AIS Gap Hours"]]>>
        ELSE <<>>)
 \o (IF row["Speed (knots)"] <= cfg.t_speed
        THEN <<[text |-> "Very low speed", value |-> row["Speed (knots)"]]>>
        ELSE <<>>)

\* Lines 303-313: the reasons appended, in order.
narrative_reasons(row, cfg) ==
    (IF row["Flag State"] \in cfg.high_risk_flags
        THEN <<[text |-> "Flagged to higher-risk state", value |-> row["Flag State"]]>>
        ELSE <<>>)
 \o (IF row["Days Since Port"] > cfg.t_days_port
        THEN <<[text |-> "Extended time at sea", value |-> row["Days Since Port"]]>>
        ELSE <<>>)
 \o (IF row["Loitering Hours"] > cfg.t_loiter
        THEN <<[text |-> "Significant loitering", value |-> row["Loitering Hours"]]>>
        ELSE <<>>)
 \o (IF row["AIS Gap Hours"] > cfg.t_ais_gap
        THEN <<[text |-> "Long AIS silence", value |-> row["AIS Gap Hours"]]>>
        ELSE <<>>)
 \o (IF row["Speed (knots)"] < cfg.t_speed
        THEN <<[text |-> "Very low speed", value |-> row["Speed (knots)"]]>>
        ELSE <<>>)

\* Lines 302-327 for one row.
narrative(row, cfg) ==
    LET found   == narrative_reasons(row, cfg)
        reasons == IF Len(found) = 0
                   THEN <<[text |-> "Routine behavior within configured thresholds.",
                           value |-> ""]>>
                   ELSE found
    IN  [ name     |-> row["Vessel Name"],
          mmsi     |-> row["MMSI"],
          flag     |-> row["Flag State"],
          score    |-> row["Risk Score"],
          level    |-> row["Risk Level"],
          distance |-> row["Distance from Patrol (nm)"],
          reasons  |-> reasons ]

----------------------------------------------------------------------------
(* One run of the script. *)

no_file == [present |-> FALSE, columns |-> {}, rows |-> <<>>]

\* Nothing rendered.
blank_screen ==
    [ info      |-> FALSE,   \* "Upload a CSV file ..." (line 330)
      error     |-> <<>>,    \* the missing columns named by st.error
      warning   |-> <<>>,    \* the distance named by the empty-view warning
      table     |-> <<>>,    \* index labels of the top-10 table
      download  |-> <<>>,    \* the exported CSV, when offered
      map       |-> <<>>,    \* the map, when drawn
      summary   |-> <<>>,    \* the operational summary, when written
      narrative |-> <<>> ]   \* the narratives of the top 3

\* Lines 180-222: the map's centre (a mean, kept as sums and a count), the
\* patrol marker and one coloured point per row of df_view.
vessel_map(frame, view, cfg) ==
    [ center |-> IF view # <<>>
                 THEN << SeqSum([k \in DOMAIN view |-> frame[view[k]]["Latitude"]]),
                         SeqSum([k \in DOMAIN view |-> frame[view[k]]["Longitude"]]),
                         Len(view) >>
                 ELSE << cfg.patrol_lat, cfg.patrol_lon, 1 >>,
      patrol |-> << cfg.patrol_lat, cfg.patrol_lon >>,
      points |-> [k \in DOMAIN view |->
                     [ lat   |-> frame[view[k]]["Latitude"],
                       lon   |-> frame[view[k]]["Longitude"],
                       color |-> risk_color(frame[view[k]]["Risk Score"]) ]] ]

empty_view_warning_default(view, max_distance_filter) ==
    IF view = <<>> THEN <<250>> ELSE <<>>

\* Lines 148-152: the warning shown for an empty view names the distance filter.
empty_view_warning(view, max_distance_filter) ==
    IF view = <<>> THEN <<max_distance_filter>> ELSE <<>>

\* Lines 78-330.  The result is the frames the run leaves and what it rendered.
script(cfg, file, kind) ==
    IF ~file.present
    THEN [ df |-> <<>>, df_view |-> <<>>, df_view_sorted |-> <<>>,
           screen |-> [blank_screen EXCEPT !.info = TRUE] ]
    ELSE LET missing == missing_columns(file.columns)
         IN  IF missing # <<>>      \* st.error, st.stop()
             THEN [ df |-> file.rows, df_view |-> <<>>, df_view_sorted |-> <<>>,
                    screen |-> [blank_screen EXCEPT !.error = missing] ]
             ELSE LET frame  == [i \in DOMAIN file.rows |-> scored_row(file.rows[i], cfg)]
                      view   == distance_filter(frame, cfg.max_distance_filter)
                      sorted == sort_values(view, risk_score(frame), kind)
                      top3   == IF sorted # <<>> THEN head(sorted, 3) ELSE <<>>
                  IN  [ df |-> frame, df_view |-> view, df_view_sorted |-> sorted,
                        screen |->
                          [ info      |-> FALSE,
                            error     |-> <<>>,
                            warning   |-> empty_view_warning(view, cfg.max_distance_filter),
                            table     |-> IF view = <<>> THEN <<>> ELSE head(sorted, 10),
                            download  |-> <<frame>>,
                            map       |-> <<vessel_map(frame, view, cfg)>>,
                            summary   |-> <<operational_summary(frame, view, cfg, kind)>>,
                            narrative |-> [k \in DOMAIN top3 |->
                                              narrative(frame[top3[k]], cfg)] ] ]

\* The rerun that follows every change of a widget.
Rerun(cfg, file) ==
    \E run \in {script(cfg, file, sort_kind)} :
        /\ df' = run.df
        /\ df_view' = run.df_view
        /\ df_view_sorted' = run.df_view_sorted
        /\ screen' = run.screen

----------------------------------------------------------------------------
(* Inputs. *)

Row(name, mmsi, imo, flag, lat, lon, days, speed, loiter, ais) ==
    ("Vessel Name" :> name) @@ ("MMSI" :> mmsi) @@ ("IMO" :> imo)
    @@ ("Flag State" :> flag) @@ ("Latitude" :> lat) @@ ("Longitude" :> lon)
    @@ ("Days Since Port" :> days) @@ ("Speed (knots)" :> speed)
    @@ ("Loitering Hours" :> loiter) @@ ("AIS Gap Hours" :> ais)

\* The vessels of the uploaded files: distinct names; positions at the
\* reference point, 10 nm north, 50 nm east, 50 nm south-west, 100 nm west,
\* 110 nm south and 300 nm north of it.  Delta's speed cell is not a number.
Fleet ==
    { Row("Alpha",   "1001", "9001", "Panama",     1,   0, 45,   5, 20, 30),
      Row("Bravo",   "1002", "9002", "Panama",     0,   0, 45,   5,  5, 10),
      Row("Charlie", "1003", "9003", "Togo",       0,   5, 45,   5,  5, 10),
      Row("Delta",   "1004", "9004", "Norway",    -3,  -4, 10, NaN,  0,  0),
      Row("Echo",    "1005", "9005", "Panama",     0, -10, 45,  80, 20, 10),
      Row("Foxtrot", "1006", "9006", "Panama",   -11,   0, 45,   5, 20, 30),
      Row("Golf",    "1007", "9007", "Norway",    30,   0, 10,  80,  0,  0) }

\* A file may hold the header alone: over a frame without rows the per-row
\* applications yield empty columns and the run goes on.
Batches == InjectiveSeqs(Fleet, 0, MaxVessels)

required_set == Range(required_columns)

\* The columns an uploaded file may carry: all, or all but some required ones.
ColumnSets ==
    { required_set,
      required_set \ {"IMO"},
      required_set \ {"Latitude", "AIS Gap Hours"} }

FileOf(batch, columns) ==
    [ present |-> TRUE,
      columns |-> columns,
      rows    |-> [i \in DOMAIN batch |-> [c \in columns |-> batch[i][c]]] ]

\* Complete files of up to MaxVessels rows, and files of up to MaxBadRows rows
\* under every set of columns.
Files ==
    {FileOf(b, required_set) : b \in Batches}
    \cup {FileOf(b, c) : b \in InjectiveSeqs(Fleet, 0, MaxBadRows), c \in ColumnSets}

FilterChoices == {10, 50, 250}

PatrolChoices == {<<0, 0>>, <<0, 1>>}

\* Rows for the scoring runs, numbered 0..31: every combination of a listed or
\* unlisted flag with each measure at or beside a threshold, all at the patrol.
Bit(k, b) == (k \div b) % 2

ScoreRow(k) ==
    Row("Vessel", "1000", "9000",
        IF Bit(k, 1) = 1 THEN "Panama" ELSE "Norway", 0, 0,
        IF Bit(k, 2) = 1 THEN 45 ELSE 30,
        IF Bit(k, 4) = 1 THEN 5 ELSE 20,
        IF Bit(k, 8) = 1 THEN 13 ELSE 5,
        IF Bit(k, 16) = 1 THEN 25 ELSE 10)

\* Scoring is row by row, so one order of each collection of distinct rows is
\* uploaded.
ScoreBatches ==
    { [i \in DOMAIN s |-> ScoreRow(s[i])] :
        s \in {t \in AllSeqs(0..31, 1, MaxScoreRows) :
                  \A i \in 1..(Len(t) - 1) : t[i] < t[i + 1]} }

ScoreFiles == {FileOf(b, required_set) : b \in ScoreBatches}

Weights(f, d, l, a, s) ==
    [w_flag |-> f, w_days_port |-> d, w_loiter |-> l, w_ais_gap |-> a, w_slow_speed |-> s]

WeightChoices ==
    { Weights(25, 15, 20, 20, 10), Weights(40, 30, 40, 40, 20), Weights(16, 8, 4, 2, 1) }

Thresholds(d, l, a, s) ==
    [t_days_port |-> d, t_loiter |-> l, t_ais_gap |-> a, t_speed |-> s]

ThresholdChoices == { Thresholds(30, 12, 24, 20), Thresholds(45, 13, 25, 5) }

FlagListChoices == { default_high_risk_flags, {"Norway", "Togo"} }

----------------------------------------------------------------------------
(* Actions: a change of one widget, then the rerun. *)

Upload(file) ==
    /\ ~uploaded_file.present
    /\ uploaded_file' = file
    /\ UNCHANGED <<config, sort_kind>>
    /\ Rerun(config, file)

RemoveFile ==
    /\ uploaded_file.present
    /\ uploaded_file' = no_file
    /\ UNCHANGED <<config, sort_kind>>
    /\ Rerun(config, no_file)

Reconfigure(cfg) ==
    /\ cfg # config
    /\ config' = cfg
    /\ UNCHANGED <<uploaded_file, sort_kind>>
    /\ Rerun(cfg, uploaded_file)

SetDistanceFilter(m) ==
    /\ DistanceRange(m)
    /\ Reconfigure([config EXCEPT !.max_distance_filter = m])

SetPatrol(lat, lon) ==
    Reconfigure([config EXCEPT !.patrol_lat = lat, !.patrol_lon = lon])

SetWeights(w) ==
    /\ WeightRange(w)
    /\ Reconfigure([config EXCEPT !.w_flag = w.w_flag, !.w_days_port = w.w_days_port,
                                  !.w_loiter = w.w_loiter, !.w_ais_gap = w.w_ais_gap,
                                  !.w_slow_speed = w.w_slow_speed])

SetThresholds(t) ==
    Reconfigure([config EXCEPT !.t_days_port = t.t_days_port, !.t_loiter = t.t_loiter,
                               !.t_ais_gap = t.t_ais_gap, !.t_speed = t.t_speed])

SetHighRiskFlags(flags) ==
    Reconfigure([config EXCEPT !.high_risk_flags = flags])

\* Positions around the reference point: on the four diagonals (45, -45, 135
\* and -135 degrees from it), inside each quadrant, at the point itself, due
\* west of it, and 110 nm north of it (outside the summary's radius).
BearingPositions ==
    << <<1, 1>>, <<-1, 1>>, <<1, -1>>, <<-1, -1>>, <<2, 1>>, <<-2, 1>>,
       <<0, 0>>, <<0, -3>>, <<11, 0>> >>

BearingNames == <<"NE", "SE", "NW", "SW", "NNE", "SSE", "Here", "W", "Far">>

BearingRow(k) ==
    Row(BearingNames[k], "2000", "8000", "Norway",
        BearingPositions[k][1], BearingPositions[k][2], 10, 80, 0, 0)

\* Files of distinct vessels around the patrol, in every order, and the file
\* with the header alone.
BearingBatches ==
    { [i \in DOMAIN s |-> BearingRow(s[i])] :
        s \in InjectiveSeqs(DOMAIN BearingPositions, 0, MaxBearingRows) }

BearingFiles == {FileOf(b, required_set) : b \in BearingBatches}

----------------------------------------------------------------------------
(* Specifications. *)

Init ==
    /\ config = default_config
    /\ uploaded_file = no_file
    /\ sort_kind \in {"stable", "unstable"}
    /\ df = <<>>
    /\ df_view = <<>>
    /\ df_view_sorted = <<>>
    /\ screen = [blank_screen EXCEPT !.info = TRUE]

UploadVessels == ~uploaded_file.present /\ \E f \in Files : Upload(f)

MoveFilter == \E m \in FilterChoices : SetDistanceFilter(m)

MovePatrol == \E p \in PatrolChoices : SetPatrol(p[1], p[2])

Next == UploadVessels \/ RemoveFile \/ MoveFilter \/ MovePatrol

\* The dashboard on fleets of vessels, with the distance filter and the patrol
\* position changing.
Spec == Init /\ [][Next]_vars

UploadScoreRows == ~uploaded_file.present /\ \E f \in ScoreFiles : Upload(f)

MoveWeights == \E w \in WeightChoices : SetWeights(w)

MoveThresholds == \E t \in ThresholdChoices : SetThresholds(t)

EditFlags == \E f \in FlagListChoices : SetHighRiskFlags(f)

NextScore == UploadScoreRows \/ RemoveFile \/ MoveWeights \/ MoveThresholds \/ EditFlags

\* The rows at the thresholds all score independently of their rank, and at
\* most three of them are uploaded, so all are narrated whatever the order of
\* ties: the scoring specification runs on the stable build only.
InitScore == Init /\ sort_kind = "stable"

\* The dashboard on rows at the thresholds, with the scoring configuration
\* changing.
SpecScore == InitScore /\ [][NextScore]_vars

UploadBearingRows == ~uploaded_file.present /\ \E f \in BearingFiles : Upload(f)

NextBearing == UploadBearingRows \/ RemoveFile \/ MovePatrol

\* The dashboard on vessels placed around the patrol, with the patrol position
\* changing.
SpecBearing == Init /\ [][NextBearing]_vars

----------------------------------------------------------------------------
(* What the claims speak of. *)

\* The last run scored the uploaded file.
Scored == uploaded_file.present /\ screen.error = <<>>

Distance(i) == df[i]["Distance from Patrol (nm)"]

Score(i) == df[i]["Risk Score"]

Level(i) == df[i]["Risk Level"]

Indicators == <<"flag", "days", "loiter", "ais", "speed">>

\* The predicate of an indicator on a record.
Triggers(p, row, cfg) ==
    CASE p = "flag"   -> row["Flag State"] \in cfg.high_risk_flags
      [] p = "days"   -> row["Days Since Port"] > cfg.t_days_port
      [] p = "loiter" -> row["Loitering Hours"] > cfg.t_loiter
      [] p = "ais"    -> row["AIS Gap Hours"] > cfg.t_ais_gap
      [] p = "speed"  -> row["Speed (knots)"] < cfg.t_speed

WeightOf(p, cfg) ==
    CASE p = "flag"   -> cfg.w_flag
      [] p = "days"   -> cfg.w_days_port
      [] p = "loiter" -> cfg.w_loiter
      [] p = "ais"    -> cfg.w_ais_gap
      [] p = "speed"  -> cfg.w_slow_speed

RECURSIVE WeightSum(_, _)
WeightSum(S, cfg) ==
    IF S = {} THEN 0
    ELSE LET p == CHOOSE x \in S : TRUE
         IN  WeightOf(p, cfg) + WeightSum(S \ {p}, cfg)

Triggered(row, cfg) == {p \in Range(Indicators) : Triggers(p, row, cfg)}

IsExampleA(row) ==
    /\ row["Flag State"] = "Panama"
    /\ row["Days Since Port"] = 45
    /\ row["Loitering Hours"] = 5
    /\ row["AIS Gap Hours"] = 10
    /\ row["Speed (knots)"] = 5

DefaultScoring ==
    /\ config.high_risk_flags = default_high_risk_flags
    /\ Weights(config.w_flag, config.w_days_port, config.w_loiter, config.w_ais_gap,
               config.w_slow_speed) = Weights(25, 15, 20, 20, 10)
    /\ Thresholds(config.t_days_port, config.t_loiter, config.t_ais_gap, config.t_speed)
         = Thresholds(30, 12, 24, 20)

\* C1: every scored record's Risk Score is exactly the sum of the configured
\* weights of those of the five indicators whose (strict) test holds on the
\* record, whatever the configuration; under the default configuration the
\* Panama-flagged record with 45 days, 5 loitering hours, 10 AIS-gap hours and
\* speed 0.5 scores 50.
C1_ScoreIsSumOfTriggeredWeights ==
    Scored =>
        \A i \in DOMAIN df :
            /\ Score(i) = WeightSum(Triggered(df[i], config), config)
            /\ (DefaultScoring /\ IsExampleA(df[i])) => Score(i) = 50

C1_Witness ==
    /\ Scored
    /\ DefaultScoring
    /\ \E i \in DOMAIN df : IsExampleA(df[i]) /\ Score(i) = 50
    /\ \E i \in DOMAIN df : Triggered(df[i], config) = {"days", "ais"} /\ Score(i) = 35

AllWeights(cfg) == WeightSum(Range(Indicators), cfg)

\* C2: every Risk Score lies between 0 and the sum of the five configured
\* weights, both ends included.
C2_ScoreWithinWeightSum ==
    Scored => \A i \in DOMAIN df : 0 <= Score(i) /\ Score(i) <= AllWeights(config)

C2_Witness ==
    /\ Scored
    /\ AllWeights(config) = 31
    /\ \E i \in DOMAIN df : Score(i) = 31
    /\ \E i \in DOMAIN df : Score(i) = 0

\* C3: in the ranked view, two vessels with equal Risk Score stand in the
\* order of their rows in the uploaded file.
C3_RankingIsStable ==
    Scored =>
        \A p, q \in DOMAIN df_view_sorted :
            (p < q /\ Score(df_view_sorted[p]) = Score(df_view_sorted[q]))
                => df_view_sorted[p] < df_view_sorted[q]

ReasonText(p) ==
    CASE p = "flag"   -> "Flagged to higher-risk state"
      [] p = "days"   -> "Extended time at sea"
      [] p = "loiter" -> "Significant loitering"
      [] p = "ais"    -> "Long AIS silence"
      [] p = "speed"  -> "Very low speed"

Texts(reasons) == [k \in DOMAIN reasons |-> reasons[k].text]

\* The reason texts the claim expects for a record.
ExpectedTexts(row, cfg) ==
    LET hit == SelectSeq(Indicators, LAMBDA p : Triggers(p, row, cfg))
    IN  IF Len(hit) = 0 THEN <<"Routine behavior within configured thresholds.">>
        ELSE [k \in DOMAIN hit |-> ReasonText(hit[k])]

Narrated == head(df_view_sorted, 3)

\* C4: each narrative lists the reason of an indicator iff the indicator's
\* test holds on its vessel's record, in the order flag, days since port,
\* loitering, AIS gap, low speed, and lists the single routine entry exactly
\* when no test holds.
C4_ReasonsMatchPredicates ==
    Scored =>
        /\ Len(screen.narrative) = Len(Narrated)
        /\ \A k \in DOMAIN screen.narrative :
               Texts(screen.narrative[k].reasons) = ExpectedTexts(df[Narrated[k]], config)

C4_Witness ==
    /\ Scored
    /\ \E k \in DOMAIN screen.narrative :
           Texts(screen.narrative[k].reasons) =
               <<"Flagged to higher-risk state", "Extended time at sea", "Very low speed">>
    /\ \E k \in DOMAIN screen.narrative :
           /\ Triggered(df[Narrated[k]], config) = {}
           /\ Texts(screen.narrative[k].reasons) =
                  <<"Routine behavior within configured thresholds.">>

LevelRank(level) ==
    CASE level = "Low" -> 0 [] level = "Medium" -> 1 [] level = "High" -> 2
      [] level = "Critical" -> 3

\* C5: whatever the weights, the Risk Level is Critical from 80, High from 60
\* to below 80, Medium from 40 to below 60 and Low below 40; so of two records
\* the one with the higher score never has the lower level.
C5_LevelByFixedCutPoints ==
    Scored =>
        /\ \A i \in DOMAIN df :
              /\ (Level(i) = "Critical") <=> (Score(i) >= 80)
              /\ (Level(i) = "High")     <=> (60 <= Score(i) /\ Score(i) < 80)
              /\ (Level(i) = "Medium")   <=> (40 <= Score(i) /\ Score(i) < 60)
              /\ (Level(i) = "Low")      <=> (Score(i) < 40)
        /\ \A i, j \in DOMAIN df :
              Score(i) >= Score(j) => LevelRank(Level(i)) >= LevelRank(Level(j))

C5_Witness ==
    /\ Scored
    /\ AllWeights(config) = 170
    /\ \E i, j \in DOMAIN df :
           /\ Score(i) = 80 /\ Level(i) = "Critical"
           /\ Score(j) = 30 /\ Level(j) = "Low"

\* A state in which two vessels of equal score are ranked: the case C3 is about.
C3_TiedVesselsRanked ==
    /\ Scored
    /\ \E p, q \in DOMAIN df_view_sorted :
           p < q /\ Score(df_view_sorted[p]) = Score(df_view_sorted[q])

InView(i) == i \in Range(df_view)

AtPatrol(i) ==
    df[i]["Latitude"] = config.patrol_lat /\ df[i]["Longitude"] = config.patrol_lon

\* C6: the filtered view holds a vessel iff its distance from the patrol is at
\* most the distance filter, the boundary included; a vessel at the patrol's
\* own coordinates has distance 0 and is kept under every setting of the
\* filter, and the filter's comparison keeps it under threshold 0 as well.
C6_FilterKeepsWithinThreshold ==
    Scored =>
        \A i \in DOMAIN df :
            /\ InView(i) <=> (Distance(i) <= Nm(config.max_distance_filter))
            /\ AtPatrol(i) =>
                  /\ Distance(i) = 0 /\ InView(i)
                  /\ i \in Range(distance_filter(df, 0))

C6_Witness ==
    /\ Scored
    /\ \E i, j, k \in DOMAIN df :
           /\ Distance(i) = Nm(config.max_distance_filter) /\ InView(i)
           /\ AtPatrol(j) /\ InView(j)
           /\ Distance(k) > Nm(config.max_distance_filter) /\ ~InView(k)

DerivedColumns == {"Distance from Patrol (nm)", "Risk Score", "Risk Level"}

\* C7: when the uploaded file lacks required columns, the error names exactly
\* the required columns it lacks, each once, and the run stops there: no row
\* gets a distance, score or level, and no ranking, table, export, map,
\* summary or narrative is produced; a complete file raises no error.
C7_MissingColumnsHaltTheRun ==
    uploaded_file.present =>
        LET lacking == required_set \ uploaded_file.columns
        IN  /\ Range(screen.error) = lacking
            /\ Len(screen.error) = Cardinality(lacking)
            /\ lacking # {} =>
                  /\ \A i \in DOMAIN df : DOMAIN df[i] \cap DerivedColumns = {}
                  /\ df_view = <<>> /\ df_view_sorted = <<>>
                  /\ screen.warning = <<>> /\ screen.table = <<>>
                  /\ screen.download = <<>> /\ screen.map = <<>>
                  /\ screen.summary = <<>> /\ screen.narrative = <<>>

C7_Witness ==
    /\ uploaded_file.present
    /\ Len(uploaded_file.rows) = 2
    /\ screen.error = <<"Latitude", "AIS Gap Hours">>
    /\ screen.summary = <<>>

\* C8: when no vessel passes the distance filter the run goes on without an
\* error: it shows the notice carrying the distance filter's value, shows no
\* ranked table and no narrative, and still produces the export, the map and
\* the summary; when some vessel passes, the notice is not shown.
C8_EmptyViewGivesNotice ==
    Scored =>
        /\ df_view = <<>> =>
              /\ screen.warning = <<config.max_distance_filter>>
              /\ screen.table = <<>> /\ screen.narrative = <<>>
              /\ screen.error = <<>>
              /\ screen.download # <<>> /\ screen.map # <<>> /\ screen.summary # <<>>
        /\ df_view # <<>> =>
              /\ screen.warning = <<>>
              /\ screen.table # <<>> /\ screen.narrative # <<>>

C8_Witness ==
    /\ Scored
    /\ Len(df) >= 2
    /\ df_view = <<>>
    /\ screen.warning = <<10>>

SummaryShown == screen.summary # <<>>

Summary == screen.summary[1]

Within(n) == {i \in DOMAIN df : Distance(i) <= Nm(n)}

\* The summary counts the vessels of the whole scored frame within 100 nm.
CountsUnfiltered == SummaryShown => Summary.count_100 = Cardinality(Within(100))

\* C9: the summary's count is the number of vessels of the unfiltered frame
\* within 100 nm, and a change of the distance filter alone (same file, same
\* patrol position) leaves the whole summary - count, majority bearing and
\* priority vessels - as it was.
C9_SummaryIgnoresDistanceFilter ==
    [][ ( /\ uploaded_file' = uploaded_file
          /\ config'.patrol_lat = config.patrol_lat
          /\ config'.patrol_lon = config.patrol_lon )
        => (screen'.summary = screen.summary /\ CountsUnfiltered') ]_vars

C9_Witness ==
    /\ Scored
    /\ config.max_distance_filter = 10
    /\ df_view = <<>>
    /\ Summary.count_100 = 3
    /\ Len(Summary.priority_vessels) = 2

Named == {i \in DOMAIN df : \E k \in DOMAIN Summary.priority_vessels :
                                df[i]["Vessel Name"] = Summary.priority_vessels[k]}

\* The row a priority name stands for (names are distinct within a file).
RowNamed(name) == CHOOSE i \in DOMAIN df : df[i]["Vessel Name"] = name

MinOf(a, b) == IF a <= b THEN a ELSE b

\* C10: the summary names min(3, number of vessels within 50 nm) vessels; each
\* is within 50 nm; no vessel within 50 nm left unnamed has a strictly higher
\* score than a named one; the names are in non-increasing order of score; and
\* whenever the summary carries a priority sentence (some vessel is within
\* 100 nm) its form - none, one, two, three - is that of the number named.
C10_PriorityVesselsAreTop3Within50 ==
    SummaryShown =>
        LET names == Summary.priority_vessels
        IN  /\ Len(names) = MinOf(3, Cardinality(Within(50)))
            /\ Cardinality(Named) = Len(names)
            /\ Named \subseteq Within(50)
            /\ \A i \in Named, j \in Within(50) \ Named : Score(j) <= Score(i)
            /\ \A k, l \in DOMAIN names :
                  k < l => Score(RowNamed(names[k])) >= Score(RowNamed(names[l]))
            /\ Summary.count_100 > 0 =>
                  Summary.priority_summary =
                      (CASE Len(names) = 0 -> "none" [] Len(names) = 1 -> "one"
                         [] Len(names) = 2 -> "two" [] Len(names) = 3 -> "three")

C10_Witness ==
    /\ SummaryShown
    /\ Len(Summary.priority_vessels) = 3
    /\ Summary.priority_summary = "three"
    /\ Within(50) = Named
    /\ \E i \in Named, j \in DOMAIN df \ Within(50) : Score(j) > Score(i)

DLat(i) == df[i]["Latitude"] - config.patrol_lat

DLon(i) == df[i]["Longitude"] - config.patrol_lon

\* The bucket of the angle atan2(dlat, dlon) in degrees, by the half-planes
\* its bounds cut: within [-45, 45] the point is on or right of both diagonals
\* (the angle of the zero vector is 0); within (45, 135) it is strictly above
\* both; within (-135, -45) strictly below both; all else, the diagonals at
\* 135 and -135 included, is West.
Bucket(dlat, dlon) ==
    CASE (dlat = 0 /\ dlon = 0) \/ (dlon > 0 /\ dlat <= dlon /\ dlat >= 0 - dlon) -> "East"
      [] dlat > 0 /\ dlon < dlat /\ dlon > 0 - dlat -> "North"
      [] dlat < 0 /\ dlon < 0 - dlat /\ dlon > dlat -> "South"
      [] OTHER -> "West"

\* The number of vessels within 100 nm in direction d.
BucketCount(d) == Cardinality({i \in Within(100) : Bucket(DLat(i), DLon(i)) = d})

Directions == {"East", "North", "South", "West"}

\* C11: when some vessel is within 100 nm, the majority direction reported
\* is a direction that no other direction outnumbers among the vessels within
\* 100 nm, each vessel put in the bucket of its angle (East for [-45, 45],
\* North for (45, 135), South for (-135, -45), West otherwise, 135 and -135
\* included); when none is, the summary says so and has neither a bearing nor
\* a priority sentence.
C11_MajorityIsMostCountedBucket ==
    SummaryShown =>
        /\ Within(100) # {} =>
              /\ Summary.sentence = "vessels within 100 miles"
              /\ Summary.majority_direction \in Directions
              /\ \A d \in Directions :
                    BucketCount(d) <= BucketCount(Summary.majority_direction)
        /\ Within(100) = {} =>
              /\ Summary.sentence = "no vessels within 100 miles"
              /\ Summary.majority_direction = ""
              /\ Summary.priority_summary = ""
              /\ Summary.priority_vessels = <<>>

C11_Witness ==
    /\ SummaryShown
    /\ Summary.majority_direction = "West"
    /\ BucketCount("West") = 2
    /\ BucketCount("East") = 1
    /\ \E i, j, k \in Within(100) :
           /\ DLat(i) > 0 /\ DLon(i) = 0 - DLat(i)
           /\ DLat(j) < 0 /\ DLon(j) = DLat(j)
           /\ DLat(k) > 0 /\ DLon(k) = DLat(k)

====
